---- MODULE Spec2Model ----
(***************************************************************************)
(* Model of src/scrapers.py: the three pagination loops RIAScraper.scrape, *)
(* CNNScraper.scrape and FOXScraper.scrape, run against a news source.     *)
(*                                                                         *)
(* The source is a listing `feed` of items (newest-first or not), served   *)
(* in pages.  When `endless` holds the listing never runs out: past the    *)
(* end of `feed` the source goes on serving copies of its last item.       *)
(* Every HTTP request may fail (an exception leaves scrape()).             *)
(***************************************************************************)
EXTENDS Integers, Sequences, FiniteSets, TLC

\* ---------------------------------------------------------------- bounds
MaxFeed == 3        \* longest explicit listing
MaxTs == 1          \* publish dates are 0..MaxTs
MaxPerPage == 2     \* largest page length
MaxCalls == 2       \* scrape() calls on one scraper object

\* Offsets past this one are not requested (only an endless source gets there).
MaxOffset == MaxFeed + MaxPerPage

Kinds == {"RIA", "CNN", "FOX"}

VARIABLES
    kind,            \* which scraper class the object is
    min_date,        \* self.min_date
    items_per_page,  \* self.items_per_page (RIA: the page length the site uses)
    feed,            \* the source's listing, first item first
    endless,         \* the listing goes on for ever with copies of its last item
    pc,              \* "idle" | "loop" | "content" | "frame" | "done" | "error"
    error,           \* "none" | "RequestException" | "ValueError"
    calls,           \* scrape() calls started so far
    scraping,        \* local: scraping
    current_url,     \* RIA local: current_url (a listing page's address)
    page,            \* RIA local: page
    current_index,   \* CNN/FOX local: current_index
    result,          \* the items of the page in hand (articles / result)
    bodies,          \* the bodies fetched so far for the page in hand
    scraped_df,      \* self.scraped_df
    source_data,     \* self.source_data
    requests,        \* the HTTP requests this call has issued, in order
    history          \* one record per scrape() call that returned

vars == <<kind, min_date, items_per_page, feed, endless, pc, error, calls,
          scraping, current_url, page, current_index, result, bodies,
          scraped_df, source_data, requests, history>>

\* ---------------------------------------------------------------- source
\* An article: its address, publish date and category.  The address carries
\* the date and the category, as ria.ru's /YYYYMMDD/ paths do.
Item(t, c) == [url |-> <<c, t>>, ts |-> t, cat |-> c]

Categories(k) == IF k = "FOX" THEN {"ARTICLE", "VIDEO"} ELSE {"ARTICLE"}

Items(k) == {Item(t, c) : t \in 0..MaxTs, c \in Categories(k)}

\* Site content: the title shown in a listing and the text of an article page.
TitleOf(u) == <<"title", u>>
ArticleText(u) == <<"text", u>>

\* Is there an i-th item (1-based) in the listing, and which one.
HasItem(i) == i <= Len(feed) \/ (endless /\ Len(feed) > 0)
ItemAt(i) == IF i <= Len(feed) THEN feed[i] ELSE feed[Len(feed)]

RECURSIVE Slice(_, _)
\* The items at positions from+1 .. from+size, as far as the listing goes.
Slice(from, size) ==
    IF size = 0 \/ ~HasItem(from + 1) THEN <<>>
    ELSE <<ItemAt(from + 1)>> \o Slice(from + 1, size - 1)

\* ---------------------------------------------------------------- tables
Columns == <<"url", "timestamp", "headline", "body">>

\* pd.DataFrame(): no columns, no rows.
EmptyFrame == [columns |-> <<>>, rows |-> <<>>]

\* Variant: the body column is left out of the frame.
DataFrameNoBody(urls, timestamps, headlines, texts) ==
    [columns |-> <<"url", "timestamp", "headline">>,
     rows |-> [i \in 1..Len(urls) |->
                 [url |-> urls[i], timestamp |-> timestamps[i],
                  headline |-> headlines[i]]]]

\* pd.DataFrame({'url': .., 'timestamp': .., 'headline': .., 'body': ..})
DataFrame(urls, timestamps, headlines, texts) ==
    [columns |-> Columns,
     rows |-> [i \in 1..Len(urls) |->
                 [url |-> urls[i], timestamp |-> timestamps[i],
                  headline |-> headlines[i], body |-> texts[i]]]]

\* Variant: a row of b that a already holds is dropped (drop_duplicates).
ConcatDedup(a, b) ==
    [columns |-> IF a.columns = <<>> THEN b.columns ELSE a.columns,
     rows |-> a.rows \o
              SelectSeq(b.rows, LAMBDA r : \A i \in 1..Len(a.rows) : a.rows[i] # r)]

\* pd.concat([a, b]): the rows of a, then the rows of b; the columns of both.
Concat(a, b) ==
    [columns |-> a.columns \o
                 SelectSeq(b.columns,
                           LAMBDA c : \A i \in 1..Len(a.columns) : a.columns[i] # c),
     rows |-> a.rows \o b.rows]

\* Variant: the cutoff date itself is excluded (> for >=).
KeepsStrict(ts, md) == ts > md

\* The cutoff test of df[df['timestamp'] >= min_date].
Keeps(ts, md) == ts >= md

\* Variant: the frame is not filtered by the cutoff.
FilterFrameNone(df, md) == df

\* df[df['timestamp'] >= md]
FilterFrame(df, md) ==
    [df EXCEPT !.rows = SelectSeq(@, LAMBDA r : Keeps(r.timestamp, md))]

\* min(timestamps), for a non-empty list.
Min(ts) == CHOOSE m \in {ts[i] : i \in 1..Len(ts)} :
               \A i \in 1..Len(ts) : m <= ts[i]

Max(ts) == CHOOSE m \in {ts[i] : i \in 1..Len(ts)} :
               \A i \in 1..Len(ts) : m >= ts[i]

\* Variant: RIA stops on the newest entry of the page (max for min).
RIAStopsMax(timestamps, md) == Max(timestamps) < md

\* RIA's stop test: min(timestamps) < pd.to_datetime(self.min_date)
RIAStops(timestamps, md) == Min(timestamps) < md

\* RIA reads the publish date out of the article's address: /(\d{8})/
RIATimestamp(url) == url[2]

\* Variant: the VIDEO filter lets every item through.
NotVideoAll(item) == TRUE

\* FOX drops the VIDEO items of a response.
NotVideo(item) == item.cat # "VIDEO"

\* FOX builds the article address: 'https://foxnews.com' + item['url']
FOXUrl(item) == <<"https://foxnews.com">> \o item.url

\* Variant: the offset advances by one item instead of one page.
NextIndexOne(index, size) == index + 1

\* The step by which CNN and FOX advance the offset.
NextIndex(index, size) == index + size

Map(f(_), s) == [i \in 1..Len(s) |-> f(s[i])]

\* ---------------------------------------------------------------- requests
ListingRequest(k, at, size) ==
    IF k = "RIA" THEN [type |-> "listing", url |-> at]
    ELSE [type |-> "listing", from |-> at, size |-> size]

ArticleRequest(url) == [type |-> "article", url |-> url]

\* ---------------------------------------------------------------- Init
Feeds(k) == UNION {[1..n -> Items(k)] : n \in 0..MaxFeed}

Init ==
    /\ kind \in Kinds
    /\ min_date \in 1..MaxTs
    /\ items_per_page \in 1..MaxPerPage
    /\ feed \in Feeds(kind)
    /\ endless \in BOOLEAN
    /\ (feed = <<>> => ~endless)
    /\ pc = "idle"
    /\ error = "none"
    /\ calls = 0
    /\ scraping = FALSE
    /\ current_url = 0
    /\ page = 0
    /\ current_index = 0
    /\ result = <<>>
    /\ bodies = <<>>
    /\ scraped_df = EmptyFrame
    /\ source_data = <<>>
    /\ requests = <<>>
    /\ history = <<>>

source == <<kind, min_date, items_per_page, feed, endless>>

CanCall == pc \in {"idle", "done", "error"} /\ calls < MaxCalls

\* ---------------------------------------------------------------- RIA
\* The address of the listing page after the one at `at`.
RIANextUrl(at) == at + items_per_page

RIAScrape ==
    /\ kind = "RIA"
    /\ CanCall
    /\ calls' = calls + 1
    /\ scraped_df' = EmptyFrame
    /\ source_data' = <<>>
    /\ page' = 0
    /\ scraping' = TRUE
    /\ current_url' = 0
    /\ pc' = "loop"
    /\ error' = "none"
    /\ requests' = <<>>
    /\ result' = <<>>
    /\ bodies' = <<>>
    /\ UNCHANGED <<source, current_index, history>>

RIARequest ==
    /\ kind = "RIA"
    /\ pc = "loop"
    /\ scraping
    /\ current_url <= MaxOffset
    /\ requests' = Append(requests, ListingRequest(kind, current_url, items_per_page))
    /\ result' = Slice(current_url, items_per_page)
    /\ current_url' = RIANextUrl(current_url)
    /\ bodies' = <<>>
    /\ pc' = "content"
    /\ UNCHANGED <<source, error, calls, scraping, page, current_index,
                   scraped_df, source_data, history>>

\* RIAScraper._get_content: the article's text with its agency lead cut off.
RIAContent(url) == ArticleText(url)

RIAGetContent ==
    /\ kind = "RIA"
    /\ pc = "content"
    /\ Len(bodies) < Len(result)
    /\ LET url == result[Len(bodies) + 1].url IN
          /\ requests' = Append(requests, ArticleRequest(url))
          /\ bodies' = Append(bodies, RIAContent(url))
    /\ UNCHANGED <<source, pc, error, calls, scraping, current_url, page,
                   current_index, result, scraped_df, source_data, history>>

RIAFrame ==
    /\ kind = "RIA"
    /\ pc = "content"
    /\ Len(bodies) = Len(result)
    /\ LET urls == Map(LAMBDA a : a.url, result)
           headlines == Map(LAMBDA a : TitleOf(a.url), result)
           timestamps == Map(RIATimestamp, urls)
           df == DataFrame(urls, timestamps, headlines, bodies)
       IN  /\ scraped_df' = Concat(scraped_df, df)
           /\ page' = page + 1
           /\ IF timestamps = <<>>
              THEN /\ pc' = "error"
                   /\ error' = "ValueError"
                   /\ UNCHANGED scraping
              ELSE /\ pc' = "loop"
                   /\ scraping' = IF RIAStops(timestamps, min_date) THEN FALSE ELSE scraping
                   /\ UNCHANGED error
    /\ UNCHANGED <<source, calls, current_url, current_index, result, bodies,
                   source_data, requests, history>>

\* ---------------------------------------------------------------- CNN
\* Variant: the table of the previous call is kept (no reset of scraped_df).
CNNScrapeKeeps ==
    /\ kind = "CNN"
    /\ CanCall
    /\ calls' = calls + 1
    /\ source_data' = <<>>
    /\ current_index' = 0
    /\ scraping' = TRUE
    /\ pc' = "loop"
    /\ error' = "none"
    /\ requests' = <<>>
    /\ result' = <<>>
    /\ bodies' = <<>>
    /\ UNCHANGED <<source, current_url, page, history, scraped_df>>

CNNScrape ==
    /\ kind = "CNN"
    /\ CanCall
    /\ calls' = calls + 1
    /\ scraped_df' = EmptyFrame
    /\ source_data' = <<>>
    /\ current_index' = 0
    /\ scraping' = TRUE
    /\ pc' = "loop"
    /\ error' = "none"
    /\ requests' = <<>>
    /\ result' = <<>>
    /\ bodies' = <<>>
    /\ UNCHANGED <<source, current_url, page, history>>

CNNRequest ==
    /\ kind = "CNN"
    /\ pc = "loop"
    /\ scraping
    /\ current_index <= MaxOffset
    /\ requests' = Append(requests, ListingRequest(kind, current_index, items_per_page))
    /\ result' = Slice(current_index, items_per_page)
    /\ source_data' = Append(source_data, result')
    /\ pc' = "frame"
    /\ UNCHANGED <<source, error, calls, scraping, current_url, page,
                   current_index, bodies, scraped_df, history>>

CNNFrame ==
    /\ kind = "CNN"
    /\ pc = "frame"
    /\ LET df == FilterFrame(
                   DataFrame(Map(LAMBDA i : i.url, result),
                             Map(LAMBDA i : i.ts, result),
                             Map(LAMBDA i : TitleOf(i.url), result),
                             Map(LAMBDA i : ArticleText(i.url), result)),
                   min_date)
       IN  /\ IF Len(df.rows) > 0
              THEN /\ current_index' = NextIndex(current_index, items_per_page)
                   /\ UNCHANGED scraping
              ELSE /\ scraping' = FALSE
                   /\ UNCHANGED current_index
           /\ scraped_df' = Concat(scraped_df, df)
    /\ pc' = "loop"
    /\ UNCHANGED <<source, error, calls, current_url, page, result, bodies,
                   source_data, requests, history>>

\* ---------------------------------------------------------------- FOX
FOXScrape ==
    /\ kind = "FOX"
    /\ CanCall
    /\ calls' = calls + 1
    /\ scraped_df' = EmptyFrame
    /\ current_index' = 0
    /\ scraping' = TRUE
    /\ pc' = "loop"
    /\ error' = "none"
    /\ requests' = <<>>
    /\ result' = <<>>
    /\ bodies' = <<>>
    /\ UNCHANGED <<source, current_url, page, source_data, history>>

FOXRequest ==
    /\ kind = "FOX"
    /\ pc = "loop"
    /\ scraping
    /\ current_index <= MaxOffset
    /\ requests' = Append(requests, ListingRequest(kind, current_index, items_per_page))
    /\ result' = SelectSeq(Slice(current_index, items_per_page), NotVideo)
    /\ bodies' = <<>>
    /\ pc' = "content"
    /\ UNCHANGED <<source, error, calls, scraping, current_url, page,
                   current_index, scraped_df, source_data, history>>

\* FOXScraper._get_content: the articleBody of the page's embedded JSON.
FOXContent(url) == ArticleText(url)

FOXGetContent ==
    /\ kind = "FOX"
    /\ pc = "content"
    /\ Len(bodies) < Len(result)
    /\ LET url == FOXUrl(result[Len(bodies) + 1]) IN
          /\ requests' = Append(requests, ArticleRequest(url))
          /\ bodies' = Append(bodies, FOXContent(url))
    /\ UNCHANGED <<source, pc, error, calls, scraping, current_url, page,
                   current_index, result, scraped_df, source_data, history>>

FOXFrame ==
    /\ kind = "FOX"
    /\ pc = "content"
    /\ Len(bodies) = Len(result)
    /\ LET df == FilterFrame(
                   DataFrame(Map(FOXUrl, result),
                             Map(LAMBDA i : i.ts, result),
                             Map(LAMBDA i : TitleOf(i.url), result),
                             bodies),
                   min_date)
       IN  /\ IF Len(df.rows) > 0
              THEN /\ current_index' = NextIndex(current_index, items_per_page)
                   /\ UNCHANGED scraping
              ELSE /\ scraping' = FALSE
                   /\ UNCHANGED current_index
           /\ scraped_df' = Concat(scraped_df, df)
    /\ pc' = "loop"
    /\ UNCHANGED <<source, error, calls, current_url, page, result, bodies,
                   source_data, requests, history>>

\* ---------------------------------------------------------------- all three
\* Variant: a failed listing request is caught and the loop tries again.
ListingRetries ==
    /\ pc = "loop"
    /\ scraping
    /\ LET at == IF kind = "RIA" THEN current_url ELSE current_index IN
          /\ at <= MaxOffset
          /\ requests' = Append(requests, ListingRequest(kind, at, items_per_page))
    /\ UNCHANGED <<source, pc, error, calls, scraping, current_url, page,
                   current_index, result, bodies, scraped_df, source_data, history>>

\* requests.get of a listing page raises, or its response does not parse.
ListingFails ==
    /\ pc = "loop"
    /\ scraping
    /\ LET at == IF kind = "RIA" THEN current_url ELSE current_index IN
          /\ at <= MaxOffset
          /\ requests' = Append(requests, ListingRequest(kind, at, items_per_page))
    /\ pc' = "error"
    /\ error' = "RequestException"
    /\ UNCHANGED <<source, calls, scraping, current_url, page, current_index,
                   result, bodies, scraped_df, source_data, history>>

\* requests.get of an article page raises, or its text does not parse.
ContentFails ==
    /\ kind \in {"RIA", "FOX"}
    /\ pc = "content"
    /\ Len(bodies) < Len(result)
    /\ LET item == result[Len(bodies) + 1]
           url == IF kind = "FOX" THEN FOXUrl(item) ELSE item.url
       IN  requests' = Append(requests, ArticleRequest(url))
    /\ pc' = "error"
    /\ error' = "RequestException"
    /\ UNCHANGED <<source, calls, scraping, current_url, page, current_index,
                   result, bodies, scraped_df, source_data, history>>

\* `while scraping` is false: return self.scraped_df
Return ==
    /\ pc = "loop"
    /\ ~scraping
    /\ pc' = "done"
    /\ history' = Append(history, [requests |-> requests, table |-> scraped_df])
    /\ UNCHANGED <<source, error, calls, scraping, current_url, page,
                   current_index, result, bodies, scraped_df, source_data,
                   requests>>

Next ==
    \/ RIAScrape \/ RIARequest \/ RIAGetContent \/ RIAFrame
    \/ CNNScrape \/ CNNRequest \/ CNNFrame
    \/ FOXScrape \/ FOXRequest \/ FOXGetContent \/ FOXFrame
    \/ ListingFails \/ ContentFails \/ Return

Spec == Init /\ [][Next]_vars

\* One scrape() call against a source all of whose requests are answered.
FirstCall(A) == A /\ calls' = 1

ServedNext ==
    \/ FirstCall(RIAScrape) \/ FirstCall(RIARequest)
    \/ FirstCall(RIAGetContent) \/ FirstCall(RIAFrame)
    \/ FirstCall(CNNScrape) \/ FirstCall(CNNRequest) \/ FirstCall(CNNFrame)
    \/ FirstCall(FOXScrape) \/ FirstCall(FOXRequest)
    \/ FirstCall(FOXGetContent) \/ FirstCall(FOXFrame)
    \/ FirstCall(Return)

\* Sequential code: the running call always takes its next step.
LiveSpec == Init /\ [][ServedNext]_vars /\ WF_vars(ServedNext)

\* ---------------------------------------------------------------- observation
\* What the request log and the source say about the call in progress.
IsListing(r) == r.type = "listing"
ListingRequests == SelectSeq(requests, IsListing)
NumListing == Len(ListingRequests)

\* The address (RIA) or offset (CNN, FOX) the k-th listing request asked for.
AddressOf(k) ==
    IF kind = "RIA" THEN ListingRequests[k].url ELSE ListingRequests[k].from

\* The entries of the k-th listing page requested, as the source serves them.
PageOf(k) == Slice(AddressOf(k), items_per_page)

\* The last listing request failed, or its page is still being worked on.
PageInHand == pc \in {"content", "frame"} \/ error = "RequestException"

\* How many fetched pages have gone through a whole loop iteration.
Processed == IF PageInHand THEN NumListing - 1 ELSE NumListing

Older(e) == e.ts < min_date
AllOlder(p) == Len(p) > 0 /\ \A i \in 1..Len(p) : Older(p[i])
SomeNotOlder(p) == \E i \in 1..Len(p) : ~Older(p[i])

\* The record a scraper makes of a listing entry.
RowOf(k, e) ==
    IF k = "FOX"
    THEN [url |-> <<"https://foxnews.com">> \o e.url, timestamp |-> e.ts,
          headline |-> <<"title", e.url>>,
          body |-> <<"text", <<"https://foxnews.com">> \o e.url>>]
    ELSE [url |-> e.url, timestamp |-> e.ts, headline |-> <<"title", e.url>>,
          body |-> <<"text", e.url>>]

\* Which entries of a page a scraper makes records of.
Recorded(k, e) ==
    CASE k = "RIA" -> TRUE
      [] k = "CNN" -> e.ts >= min_date
      [] k = "FOX" -> e.cat # "VIDEO" /\ e.ts >= min_date

\* The record list of one page.
PageRows(k, p) ==
    LET kept == SelectSeq(p, LAMBDA e : Recorded(k, e))
    IN  [i \in 1..Len(kept) |-> RowOf(k, kept[i])]

\* ---------------------------------------------------------------- C1
\* C1: once a fetched listing page has entries and all of them are strictly
\* older than min_date, no further listing page is requested, and when the
\* page's iteration is over the loop is left for the return.
C1_StopsAtOlderPage ==
    /\ \A k \in 1..(NumListing - 1) : ~AllOlder(PageOf(k))
    /\ (NumListing > 0 /\ ~PageInHand /\ AllOlder(PageOf(NumListing)))
          => (pc \in {"loop", "done"} /\ ~scraping)

C1_Witness ==
    /\ pc = "done"
    /\ NumListing >= 2
    /\ AllOlder(PageOf(NumListing))
    /\ kind = "RIA"

\* ---------------------------------------------------------------- C2
\* C2 as stated: a fetched page with at least one entry at or after min_date
\* is followed by a request for the next page.
C2_Original ==
    (pc = "loop" /\ NumListing > 0 /\ SomeNotOlder(PageOf(NumListing)))
        => scraping

\* The entries of a page that decide whether a scraper goes on.
Counted(k, p) == IF k = "FOX" THEN SelectSeq(p, LAMBDA e : e.cat # "VIDEO") ELSE p

GoesOn(k, p) ==
    IF k = "RIA" THEN \A i \in 1..Len(p) : ~Older(p[i])
    ELSE SomeNotOlder(Counted(k, p))

\* C2 amended: after a page's iteration, CNN goes on exactly when the page has
\* an entry at or after min_date, FOX exactly when it has such an entry that is
\* no VIDEO item, and RIA exactly when no entry of the page is older than
\* min_date.
C2_GoesOn ==
    (pc = "loop" /\ NumListing > 0)
        => (scraping <=> GoesOn(kind, PageOf(NumListing)))

C2_Witness ==
    /\ kind = "CNN"
    /\ NumListing = 2
    /\ pc = "frame"
    /\ SomeNotOlder(PageOf(1))
    /\ \E i \in 1..Len(PageOf(1)) : Older(PageOf(1)[i])

\* ---------------------------------------------------------------- C3
RECURSIVE EntriesOf(_)
\* All entries of the first k fetched pages.
EntriesOf(k) == IF k = 0 THEN <<>> ELSE EntriesOf(k - 1) \o PageOf(k)

\* C3: every record of the accumulated table has exactly the fields url,
\* timestamp, headline and body and is the record of an entry of a fetched
\* page, there are no more records than entries, and after every loop
\* iteration the table has these four columns, with or without rows.
C3_UniformRecords ==
    /\ \A i \in 1..Len(scraped_df.rows) :
          /\ DOMAIN scraped_df.rows[i] = {"url", "timestamp", "headline", "body"}
          /\ \E j \in 1..Len(EntriesOf(NumListing)) :
                scraped_df.rows[i] = RowOf(kind, EntriesOf(NumListing)[j])
    /\ Len(scraped_df.rows) <= Len(EntriesOf(NumListing))
    /\ Processed > 0 =>
          /\ Len(scraped_df.columns) = 4
          /\ {scraped_df.columns[c] : c \in 1..4}
                = {"url", "timestamp", "headline", "body"}

C3_Witness ==
    /\ pc = "done"
    /\ kind = "CNN"
    /\ scraped_df.rows = <<>>
    /\ Len(scraped_df.columns) = 4
    /\ Len(PageOf(1)) > 0

\* ---------------------------------------------------------------- C4
\* The listing as the source serves it has MaxFeed + 1 positions that matter:
\* an endless source repeats its last item from there on.
Listed(i) == HasItem(i)
NewestFirst ==
    \A i \in 1..MaxFeed : Listed(i + 1) => ItemAt(i).ts >= ItemAt(i + 1).ts
ReachesMinDate == \E i \in 1..MaxFeed : Listed(i) /\ Older(ItemAt(i))
Running == pc \in {"loop", "content", "frame"}

\* C4: against a source that lists newest-first and reaches an entry older
\* than min_date (and answers every request), a running scrape() call
\* eventually returns.
C4_Terminates ==
    [](NewestFirst /\ ReachesMinDate /\ Running => <>(pc = "done"))

C4_Witness ==
    /\ NewestFirst
    /\ ReachesMinDate
    /\ endless
    /\ pc = "done"
    /\ NumListing >= 2

\* ---------------------------------------------------------------- C5
RECURSIVE Accumulated(_)
\* The record lists of the first k fetched pages, one after the other.
Accumulated(k) ==
    IF k = 0 THEN <<>> ELSE Accumulated(k - 1) \o PageRows(kind, PageOf(k))

Count(r, rows) == Cardinality({i \in 1..Len(rows) : rows[i] = r})

\* C5: the accumulated table is the record lists of the pages processed so
\* far, in fetch order, nothing removed, changed or merged.
C5_Accumulates == scraped_df.rows = Accumulated(Processed)

C5_Witness ==
    /\ pc = "done"
    /\ Processed >= 2
    /\ \E i \in 1..Len(scraped_df.rows) :
          Count(scraped_df.rows[i], scraped_df.rows) = 2
    /\ PageRows(kind, PageOf(1)) # <<>>
    /\ PageRows(kind, PageOf(1)) = PageRows(kind, PageOf(2))

\* ---------------------------------------------------------------- C6
IsPrefix(a, b) == Len(a) <= Len(b) /\ a = SubSeq(b, 1, Len(a))

\* The requests one loop iteration issues for the page at offset o: the
\* listing request, then one article request per entry whose body is fetched.
PageRequests(o) ==
    LET p == Slice(o, items_per_page)
        fetched == CASE kind = "RIA" -> p
                     [] kind = "CNN" -> <<>>
                     [] kind = "FOX" -> SelectSeq(p, LAMBDA e : e.cat # "VIDEO")
    IN  <<ListingRequest(kind, o, items_per_page)>> \o
        [i \in 1..Len(fetched) |->
           [type |-> "article",
            url |-> IF kind = "FOX" THEN <<"https://foxnews.com">> \o fetched[i].url
                    ELSE fetched[i].url]]

RECURSIVE ExpectedLog(_)
\* The requests of the first k loop iterations when each is issued once.
ExpectedLog(k) ==
    IF k = 0 THEN <<>>
    ELSE ExpectedLog(k - 1) \o PageRequests((k - 1) * items_per_page)

C6_Log ==
    /\ IsPrefix(requests, ExpectedLog(NumListing))
    /\ pc \in {"loop", "done"} => requests = ExpectedLog(NumListing)
    /\ error = "RequestException" => pc = "error"
    /\ pc = "error" => Len(history) < calls

\* C6: every listing request and every article request of a call is issued
\* once, in order; a failed request ends the call in an error, nothing is
\* issued after it and no table is returned for the call.
C6_NoRetry ==
    /\ []C6_Log
    /\ [][pc = "error" => (calls' = calls + 1 /\ history' = history)]_vars

C6_Witness ==
    /\ pc = "error"
    /\ error = "RequestException"
    /\ Len(requests) >= 4
    /\ requests[Len(requests)].type = "article"

\* ---------------------------------------------------------------- C7
\* C7: a call starts from the empty table and the first page, and two calls
\* that return on the same scraper object issued the same requests and
\* returned equal tables.
C7_NoCaching ==
    /\ (pc = "loop" /\ requests = <<>>) =>
          /\ scraped_df = EmptyFrame
          /\ IF kind = "RIA" THEN current_url = 0 /\ page = 0
             ELSE current_index = 0
    /\ \A i, j \in 1..Len(history) : history[i] = history[j]

C7_Witness ==
    /\ Len(history) = 2
    /\ Len(history[1].table.rows) >= 2
    /\ Len(history[2].requests) >= 2

\* ---------------------------------------------------------------- C8
\* C8 as stated: no record of the table is older than min_date.
C8_NoOlderRows ==
    \A i \in 1..Len(scraped_df.rows) : scraped_df.rows[i].timestamp >= min_date

\* ---------------------------------------------------------------- C9
\* How many of the first k fetched pages have a non-empty record list.
Contributed(k) ==
    Cardinality({j \in 1..k : PageRows(kind, PageOf(j)) # <<>>})

\* C9: CNN's and FOX's k-th listing request (k = 0, 1, ..) asks for
\* from = k * items_per_page and size = items_per_page; the offset has moved
\* by items_per_page for each page that kept a row; a call that returns made
\* one more listing request than pages contributed rows.
C9_Offsets ==
    kind \in {"CNN", "FOX"} =>
        /\ \A k \in 1..NumListing :
              ListingRequests[k] = [type |-> "listing",
                                    from |-> (k - 1) * items_per_page,
                                    size |-> items_per_page]
        /\ current_index = items_per_page * Contributed(Processed)
        /\ pc = "done" => NumListing = 1 + Contributed(NumListing)

C9_Witness ==
    /\ kind = "FOX"
    /\ pc = "done"
    /\ items_per_page = 2
    /\ NumListing = 3

\* ---------------------------------------------------------------- C10
IsVideoUrl(u) == u[Len(u) - 1] = "VIDEO"

\* C10: FOX makes no record of a VIDEO item, requests no article page for
\* one, and ends pagination at a page none of whose other items is at or
\* after min_date.
C10_NoVideo ==
    kind = "FOX" =>
        /\ \A i \in 1..Len(scraped_df.rows) : ~IsVideoUrl(scraped_df.rows[i].url)
        /\ \A i \in 1..Len(requests) :
              requests[i].type = "article" => ~IsVideoUrl(requests[i].url)
        /\ (pc = "loop" /\ NumListing > 0
              /\ \A i \in 1..Len(PageOf(NumListing)) :
                    \/ PageOf(NumListing)[i].cat = "VIDEO"
                    \/ Older(PageOf(NumListing)[i]))
              => ~scraping

C10_Witness ==
    /\ kind = "FOX"
    /\ pc = "done"
    /\ NumListing = 2
    /\ \E i \in 1..Len(PageOf(2)) :
          PageOf(2)[i].cat = "VIDEO" /\ ~Older(PageOf(2)[i])
    /\ \E i \in 1..Len(PageOf(1)) : PageOf(1)[i].cat = "VIDEO"

====
